---- MODULE Spec2Model ----
(***************************************************************************)
(* Model of src/main.py: the /execute-test handler (execute_test), the     *)
(* step executor (SeleniumExecutor.execute_step, _execute_action,          *)
(* _capture_failure_screenshot), the session registry (active_drivers)     *)
(* and the webhook background task (send_webhook).                         *)
(*                                                                         *)
(* Python strings are tuples of one-character strings, so that truthiness, *)
(* int() and the `in` substring test are computed, not assumed.  Python's  *)
(* None is the tuple <<"None">> for Optional[str] and the empty tuple for  *)
(* Optional[int] (an int n is <<n>>).  Wall-clock fields (duration,        *)
(* timestamp) are not modelled.                                            *)
(*                                                                         *)
(* execute_test is a coroutine (async def, line 213) whose body holds no   *)
(* await: the event loop runs one handler body at a time.  send_webhook is *)
(* a plain function handed to BackgroundTasks: it runs after the response  *)
(* of its run, concurrently with the handlers of later requests.           *)
(***************************************************************************)
EXTENDS Integers, Sequences, FiniteSets, TLC

VARIABLES
    request,            \* the TestRequest of each run
    pc,                 \* where each run stands in execute_test
    driver,             \* execute_test's local `driver` (0 is None)
    active_drivers,     \* the session registry: session id -> driver
    idx,                \* loop variable of `for idx, step in enumerate(..., 1)`
    attempt,            \* loop variable of `for attempt in range(max_retries + 1)`
    detailed_results,   \* execute_test's local list
    steps_passed,
    steps_failed,
    result,             \* the TestResult built by the run
    response,           \* the TestResult handed back to the HTTP client
    background_tasks,   \* payloads handed to background_tasks.add_task
    posted,             \* payloads that send_webhook POSTed
    webhook,            \* state of the run's send_webhook task
    exc,                \* the exception caught at line 284 ("" when none)
    quit_calls,         \* history: number of driver.quit() calls of the run
    tries,              \* history: per step, the outcome of each _execute_action call
    shots,              \* history: per step, the _capture_failure_screenshot calls
    sleeps,             \* history: per step, the seconds of each time.sleep(retry_delay)
    last,               \* history: the driver calls and the sleep of the latest attempt
    run_calls,          \* history: the driver calls of execute_test before the steps
    error_shot,         \* history: the outcome of the save_screenshot of line 295
    deregistered,       \* history: whether the loop of lines 323-325 has run
    health              \* the active_sessions of the latest /health answer

vars == <<request, pc, driver, active_drivers, idx, attempt, detailed_results,
          steps_passed, steps_failed, result, response, background_tasks,
          posted, webhook, exc, quit_calls, tries, shots, sleeps, last, run_calls,
          error_shot, deregistered, health>>

-----------------------------------------------------------------------------
(* Bounds of the model *)

NumRuns == 2
MaxSteps == 2

Runs == 1..NumRuns

-----------------------------------------------------------------------------
(* Python values *)

None == <<"None">>
NoInt == <<>>

Truthy(s) == s # None /\ s # <<>>

Digits == [c \in {"0", "1", "2", "3", "4", "5", "6", "7", "8", "9"} |->
             CASE c = "0" -> 0 [] c = "1" -> 1 [] c = "2" -> 2 [] c = "3" -> 3
               [] c = "4" -> 4 [] c = "5" -> 5 [] c = "6" -> 6 [] c = "7" -> 7
               [] c = "8" -> 8 [] c = "9" -> 9]

RECURSIVE DigitsValue(_)
DigitsValue(s) ==
    IF s = <<>> THEN 0
    ELSE 10 * DigitsValue(SubSeq(s, 1, Len(s) - 1)) + Digits[s[Len(s)]]

AllDigits(s) == s # <<>> /\ \A i \in 1..Len(s) : s[i] \in DOMAIN Digits

\* IntOfStr with 0 for what int() rejects
IntOfStr_lenient(s) ==
    IF AllDigits(s) THEN <<DigitsValue(s)>>
    ELSE IF s # <<>> /\ s[1] \in {"-", "+"} /\ AllDigits(Tail(s))
         THEN <<(IF s[1] = "-" THEN -1 ELSE 1) * DigitsValue(Tail(s))>>
         ELSE <<0>>

\* int(s) for a str: <<n>>, or the empty tuple when int() raises ValueError
IntOfStr(s) ==
    IF AllDigits(s) THEN <<DigitsValue(s)>>
    ELSE IF s # <<>> /\ s[1] \in {"-", "+"} /\ AllDigits(Tail(s))
         THEN <<(IF s[1] = "-" THEN -1 ELSE 1) * DigitsValue(Tail(s))>>
         ELSE <<>>

\* IsSubstring as a test of equality
IsSubstring_equality(a, b) == a = b

\* `a in b` for two str
IsSubstring(a, b) ==
    \E i \in 1..(Len(b) + 1) :
        i + Len(a) - 1 <= Len(b) /\ SubSeq(b, i, i + Len(a) - 1) = a

-----------------------------------------------------------------------------
(* Program constants *)

max_retries == 2
retry_delay == 2

SCREENSHOTS_DIR == "screenshots"

\* The f-strings of lines 157, 183 and 294, kept as the tuple of their pieces
StepScreenshotPath(test_id, n) ==
    <<SCREENSHOTS_DIR, "/", test_id, "_step_", ToString(n), ".png">>

FailedScreenshotPath(test_id, n) ==
    <<SCREENSHOTS_DIR, "/", test_id, "_step_", ToString(n), "_FAILED.png">>

ErrorScreenshotPath(test_id) ==
    <<SCREENSHOTS_DIR, "/", test_id, "_ERROR.png">>

-----------------------------------------------------------------------------
(* Inputs: the TestStep and TestRequest values the runs are given *)

SEL == <<"#", "e", "l">>
URL == <<"h", "t", "t", "p", ":", "/", "/", "a">>
HOOK == <<"h", "t", "t", "p", ":", "/", "/", "n", "8", "n">>
WELCOME == <<"W", "e", "l", "c", "o", "m", "e">>
WELCOME_USER == <<"W", "e", "l", "c", "o", "m", "e", ",", " ", "U", "s", "e", "r">>
GOODBYE == <<"G", "o", "o", "d", "b", "y", "e">>

TestStep(a, s, v, t) == [action |-> a, selector |-> s, value |-> v, timeout |-> t]

\* every action kind, with and without its required fields
FullStepPool ==
    { TestStep("open_url", None, URL, <<10>>),
      TestStep("open_url", None, None, <<10>>),
      TestStep("click", SEL, None, <<10>>),
      TestStep("click", None, None, <<10>>),
      TestStep("type_text", SEL, WELCOME, <<10>>),
      TestStep("type_text", SEL, <<>>, <<10>>),
      TestStep("verify", SEL, WELCOME, <<10>>),
      TestStep("verify", SEL, None, NoInt),
      TestStep("wait", None, <<"1">>, <<10>>),
      TestStep("wait", None, <<"a", "b", "c">>, <<10>>),
      TestStep("wait", None, None, NoInt),
      TestStep("wait", None, <<>>, <<3>>),
      TestStep("wait", None, <<"-", "1">>, <<10>>),
      TestStep("wait", None, None, <<10>>),
      TestStep("verify", None, WELCOME, <<10>>),
      TestStep("type_text", None, WELCOME, <<10>>),
      TestStep("screenshot", None, None, <<10>>),
      TestStep("hover", SEL, None, <<10>>) }

\* the steps of the multi-step requests
StepPool ==
    { TestStep("click", SEL, None, <<10>>),
      TestStep("verify", SEL, WELCOME, <<10>>),
      TestStep("screenshot", None, None, <<10>>) }

\* the steps of the requests that run side by side: one that always passes,
\* one that always fails
SimpleStepPool ==
    { TestStep("wait", None, <<"1">>, <<10>>),
      TestStep("hover", SEL, None, <<10>>) }

RECURSIVE SeqsUpTo(_, _)
SeqsUpTo(S, n) ==
    IF n = 0 THEN { <<>> }
    ELSE LET shorter == SeqsUpTo(S, n - 1)
         IN shorter \cup { Append(q, x) : q \in { p \in shorter : Len(p) = n - 1 }, x \in S }

WebhookUrls == { None, <<>>, HOOK }

TestRequest(id, st, w) == [test_id |-> id, url |-> URL, steps |-> st, webhook_url |-> w]

Requests ==
    { TestRequest("t1", st, w) : st \in SeqsUpTo(StepPool, MaxSteps), w \in WebhookUrls }

StepRequests ==
    { TestRequest("t1", <<st>>, w) : st \in FullStepPool, w \in WebhookUrls }

SimpleRequests ==
    { TestRequest("t1", <<st>>, w) : st \in SimpleStepPool, w \in { None, HOOK } }

-----------------------------------------------------------------------------
(* The browser driver, an external collaborator: what one attempt meets *)

Texts == { WELCOME_USER, GOODBYE }

\* wait: the outcome of WebDriverWait(...).until(visibility_of_element_located)
\* act:  the outcome of the driver call that follows (get, click, type,
\*       element.text, save_screenshot);  text: the element's visible text
Envs == [wait : {"visible", "TimeoutException", "WebDriverException"},
         act : {"ok", "WebDriverException"},
         text : Texts]

-----------------------------------------------------------------------------
(* SeleniumExecutor._execute_action, lines 122-178 *)

\* one call of the driver made by an attempt, with what it answered
Call(c, o) == [call |-> c, outcome |-> o, text |-> <<>>]

\* element.text, answered with the element's visible text
TextCall(t) == [call |-> "text", outcome |-> "ok", text |-> t]

Raise(t, calls) ==
    [ok |-> FALSE, error_type |-> t, driver_calls |-> calls, slept |-> NoInt,
     kind |-> "generic"]

Returns(calls, secs, k) ==
    [ok |-> TRUE, error_type |-> "", driver_calls |-> calls, slept |-> secs,
     kind |-> k]

\* WebDriverWait(self.driver, step.timeout or 10).until(...) then one driver call
WaitThenAct(env, c) ==
    IF env.wait # "visible" THEN Raise(env.wait, <<Call("wait", env.wait)>>)
    ELSE IF env.act # "ok" THEN Raise(env.act, <<Call("wait", "visible"), Call(c, env.act)>>)
    ELSE Returns(<<Call("wait", "visible"), Call(c, "ok")>>, NoInt, "generic")

_execute_action(step, env) ==
    CASE step.action = "open_url" ->
           LET url == IF Truthy(step.value) THEN step.value ELSE step.selector
           IN IF ~Truthy(url)
              THEN Raise("InvalidArgumentException", <<Call("get", "InvalidArgumentException")>>)
              ELSE IF env.act # "ok" THEN Raise(env.act, <<Call("get", env.act)>>)
              ELSE Returns(<<Call("get", "ok")>>, <<1>>, "generic")
      [] step.action = "click" ->
           IF ~Truthy(step.selector) THEN Raise("ValueError", <<>>)
           ELSE WaitThenAct(env, "click")
      [] step.action = "type_text" ->
           IF ~Truthy(step.selector) \/ ~Truthy(step.value) THEN Raise("ValueError", <<>>)
           ELSE WaitThenAct(env, "type")
      [] step.action = "verify" ->
           IF ~Truthy(step.selector) THEN Raise("ValueError", <<>>)
           ELSE IF env.wait # "visible" THEN Raise(env.wait, <<Call("wait", env.wait)>>)
           ELSE IF ~Truthy(step.value)
                THEN Returns(<<Call("wait", "visible")>>, NoInt, "generic")
           ELSE IF env.act # "ok"
                THEN Raise(env.act, <<Call("wait", "visible"), Call("text", env.act)>>)
           ELSE IF ~IsSubstring(step.value, env.text)
                THEN Raise("AssertionError", <<Call("wait", "visible"), TextCall(env.text)>>)
           ELSE Returns(<<Call("wait", "visible"), TextCall(env.text)>>, NoInt, "generic")
      [] step.action = "wait" ->
           IF Truthy(step.value)
           THEN LET n == IntOfStr(step.value)
                IN IF n = NoInt \/ n[1] < 0 THEN Raise("ValueError", <<>>)
                   ELSE Returns(<<>>, n, "generic")
           ELSE IF step.timeout = NoInt THEN Raise("TypeError", <<>>)
           ELSE IF step.timeout[1] < 0 THEN Raise("ValueError", <<>>)
           ELSE Returns(<<>>, step.timeout, "generic")
      [] step.action = "screenshot" ->
           IF env.act # "ok" THEN Raise(env.act, <<Call("save_screenshot", env.act)>>)
           ELSE Returns(<<Call("save_screenshot", "ok")>>, NoInt, "screenshot")
      [] OTHER -> Raise("ValueError", <<>>)

-----------------------------------------------------------------------------
(* Results *)

\* PassedResult with the 0-based position as step_number
PassedResult_zero_based(step, n, test_id, att, out) ==
    IF out.kind = "screenshot"
    THEN [step_number |-> n - 1, action |-> step.action,
          screenshot |-> StepScreenshotPath(test_id, n),
          attempt |-> att, status |-> "passed"]
    ELSE [step_number |-> n - 1, action |-> step.action, selector |-> step.selector,
          value |-> step.value, attempt |-> att, status |-> "passed"]

\* the dict returned at lines 159-165 (screenshot) or 171-178, with the
\* 'attempt' and 'status' keys execute_step adds at lines 97-98
PassedResult(step, n, test_id, att, out) ==
    IF out.kind = "screenshot"
    THEN [step_number |-> n, action |-> step.action,
          screenshot |-> StepScreenshotPath(test_id, n),
          attempt |-> att, status |-> "passed"]
    ELSE [step_number |-> n, action |-> step.action, selector |-> step.selector,
          value |-> step.value, attempt |-> att, status |-> "passed"]

\* _capture_failure_screenshot writing to the name of a step screenshot
_capture_failure_screenshot_plain_name(test_id, n, shot) ==
    IF shot = "ok" THEN StepScreenshotPath(test_id, n) ELSE None

\* SeleniumExecutor._capture_failure_screenshot, lines 180-189
_capture_failure_screenshot(test_id, n, shot) ==
    IF shot = "ok" THEN FailedScreenshotPath(test_id, n) ELSE None

\* the dict built at lines 109-118
FailedResult(step, n, att, out, screenshot_path) ==
    [step_number |-> n, action |-> step.action, status |-> "failed",
     error_type |-> out.error_type, screenshot |-> screenshot_path, attempt |-> att]

NoResult == [status |-> "NONE"]

\* CompletedResult with PASS decided by a passed step instead of no failed one
CompletedResult_needs_pass(req, passed, failed, details) ==
    [test_id |-> req.test_id,
     status |-> IF passed > 0 THEN "PASS" ELSE "FAIL",
     steps_executed |-> Len(req.steps),
     steps_passed |-> passed,
     steps_failed |-> failed,
     error_message |-> None,
     screenshot_url |-> None,
     detailed_results |-> details]

\* TestResult(...) of lines 266-275
CompletedResult(req, passed, failed, details) ==
    [test_id |-> req.test_id,
     status |-> IF failed = 0 THEN "PASS" ELSE "FAIL",
     steps_executed |-> Len(req.steps),
     steps_passed |-> passed,
     steps_failed |-> failed,
     error_message |-> None,
     screenshot_url |-> None,
     detailed_results |-> details]

\* ErrorResult with the number of submitted steps reported as executed
ErrorResult_counts_steps(req, e, screenshot_path) ==
    [test_id |-> req.test_id,
     status |-> "ERROR",
     steps_executed |-> Len(req.steps),
     steps_passed |-> 0,
     steps_failed |-> 0,
     error_message |-> <<e, ": ">>,
     screenshot_url |-> screenshot_path,
     detailed_results |-> <<>>]

\* TestResult(...) of lines 299-310
ErrorResult(req, e, screenshot_path) ==
    [test_id |-> req.test_id,
     status |-> "ERROR",
     steps_executed |-> 0,
     steps_passed |-> 0,
     steps_failed |-> 0,
     error_message |-> <<e, ": ">>,
     screenshot_url |-> screenshot_path,
     detailed_results |-> <<>>]

\* AddTask without the test of webhook_url
AddTask_unconditional(tasks, req, res) == Append(tasks, res)

\* AddTask with the payload taken before the step results are attached
AddTask_partial(tasks, req, res) ==
    IF Truthy(req.webhook_url) THEN Append(tasks, [res EXCEPT !.detailed_results = <<>>])
    ELSE tasks

\* `if request.webhook_url: background_tasks.add_task(send_webhook, ...)`
AddTask(tasks, req, res) ==
    IF Truthy(req.webhook_url) THEN Append(tasks, res) ELSE tasks

-----------------------------------------------------------------------------
(* The session registry, a dict *)

NoDriver == 0

Register(reg, sid, d) ==
    [s \in (DOMAIN reg) \cup {sid} |-> IF s = sid THEN d ELSE reg[s]]

\* Deregister emptying the registry
Deregister_clears_all(reg, d) == <<>>

\* lines 323-325: delete every entry whose value is the driver
Deregister(reg, d) ==
    [s \in { t \in DOMAIN reg : reg[t] # d } |-> reg[s]]

-----------------------------------------------------------------------------
(* Initial states *)

NoAttempt == [driver_calls |-> <<>>, slept |-> NoInt]

EmptyRequest == TestRequest("t1", <<>>, None)

InitLocals ==
    /\ driver = [r \in Runs |-> NoDriver]
    /\ active_drivers = <<>>
    /\ idx = [r \in Runs |-> 0]
    /\ attempt = [r \in Runs |-> 0]
    /\ detailed_results = [r \in Runs |-> <<>>]
    /\ steps_passed = [r \in Runs |-> 0]
    /\ steps_failed = [r \in Runs |-> 0]
    /\ result = [r \in Runs |-> NoResult]
    /\ response = [r \in Runs |-> NoResult]
    /\ background_tasks = [r \in Runs |-> <<>>]
    /\ posted = [r \in Runs |-> <<>>]
    /\ webhook = [r \in Runs |-> "idle"]
    /\ exc = [r \in Runs |-> ""]
    /\ quit_calls = [r \in Runs |-> 0]
    /\ tries = [r \in Runs |-> <<>>]
    /\ shots = [r \in Runs |-> <<>>]
    /\ sleeps = [r \in Runs |-> <<>>]
    /\ last = [r \in Runs |-> NoAttempt]
    /\ run_calls = [r \in Runs |-> <<>>]
    /\ error_shot = [r \in Runs |-> <<>>]
    /\ deregistered = [r \in Runs |-> FALSE]
    /\ health = NoInt

\* one request, drawn from the whole pool of steps
Init ==
    /\ \E q \in Requests : request = [r \in Runs |-> IF r = 1 THEN q ELSE EmptyRequest]
    /\ pc = [r \in Runs |-> IF r = 1 THEN "idle" ELSE "absent"]
    /\ InitLocals

\* one request of one step, drawn from every kind of step
InitSteps ==
    /\ \E q \in StepRequests : request = [r \in Runs |-> IF r = 1 THEN q ELSE EmptyRequest]
    /\ pc = [r \in Runs |-> IF r = 1 THEN "idle" ELSE "absent"]
    /\ InitLocals

\* each request that runs beside others carries a test_id of its own
TestIdOf(r) == "t" \o ToString(r)

\* NumRuns requests of one step and no callback, for the /health readings
InitHealth ==
    /\ \E f \in [Runs -> { q \in SimpleRequests : q.webhook_url = None }] :
         request = [r \in Runs |-> [f[r] EXCEPT !.test_id = TestIdOf(r)]]
    /\ pc = [r \in Runs |-> "idle"]
    /\ InitLocals

\* NumRuns requests of one step each, all with a webhook_url
InitConc ==
    /\ \E f \in [Runs -> { q \in SimpleRequests : q.webhook_url = HOOK }] :
         request = [r \in Runs |-> [f[r] EXCEPT !.test_id = TestIdOf(r)]]
    /\ pc = [r \in Runs |-> "idle"]
    /\ InitLocals

-----------------------------------------------------------------------------
(* execute_test, lines 212-327, one action per stretch between driver calls *)

\* the body of the coroutine never awaits: a handler starts only when no
\* other handler body is running
LoopFree == \A q \in Runs : pc[q] \in {"absent", "idle", "done"}

\* lines 219-238: Driver(...), then the session is registered under a fresh uuid
CreateSession(r) ==
    /\ pc[r] = "idle"
    /\ LoopFree
    /\ \E outcome \in {"ok", "SessionNotCreatedException"} :
         IF outcome = "ok"
         THEN /\ driver' = [driver EXCEPT ![r] = r]
              /\ active_drivers' = Register(active_drivers, r, r)
              /\ pc' = [pc EXCEPT ![r] = "navigate"]
              /\ exc' = exc
         ELSE /\ pc' = [pc EXCEPT ![r] = "except"]
              /\ exc' = [exc EXCEPT ![r] = outcome]
              /\ UNCHANGED <<driver, active_drivers>>
    /\ UNCHANGED <<request, idx, attempt, detailed_results, steps_passed, steps_failed,
                   result, response, background_tasks, posted, webhook, quit_calls,
                   tries, shots, sleeps>>
    /\ run_calls' = [run_calls EXCEPT ![r] = Append(@, "Driver")]
    /\ UNCHANGED <<last, error_shot, deregistered, health>>

\* lines 240-248: driver.get(request.url), then the loop's locals
Navigate(r) ==
    /\ pc[r] = "navigate"
    /\ \E outcome \in {"ok", "WebDriverException"} :
         IF outcome = "ok"
         THEN /\ pc' = [pc EXCEPT ![r] = "steps"]
              /\ idx' = [idx EXCEPT ![r] = 1]
              /\ exc' = exc
         ELSE /\ pc' = [pc EXCEPT ![r] = "except"]
              /\ exc' = [exc EXCEPT ![r] = outcome]
              /\ idx' = idx
    /\ UNCHANGED <<request, driver, active_drivers, attempt, detailed_results,
                   steps_passed, steps_failed, result, response, background_tasks,
                   posted, webhook, quit_calls, tries, shots, sleeps>>
    /\ run_calls' = [run_calls EXCEPT ![r] = Append(@, "get")]
    /\ UNCHANGED <<last, error_shot, deregistered, health>>

\* MayRetry with one retry too many
MayRetry_extra(att) == att < max_retries + 1

\* `if attempt < max_retries` of line 103
MayRetry(att) == att < max_retries

\* AttemptNumber with the 0-based loop variable reported as it is
AttemptNumber_zero_based(att) == att

\* `attempt + 1` of lines 97 and 116: range() counts from 0
AttemptNumber(att) == att + 1

\* lines 96-100, then 253-256: the attempt succeeded; its result is returned,
\* appended and counted
StepPassed(r, out) ==
    LET n == idx[r]
    IN /\ detailed_results' = [detailed_results EXCEPT ![r] =
             Append(@, PassedResult(request[r].steps[n], n, request[r].test_id,
                                    AttemptNumber(attempt[r]), out))]
       /\ steps_passed' = [steps_passed EXCEPT ![r] = @ + 1]
       /\ idx' = [idx EXCEPT ![r] = n + 1]
       /\ attempt' = [attempt EXCEPT ![r] = 0]
       /\ UNCHANGED <<steps_failed, pc, exc>>

\* lines 103-105: the attempt faulted and another one follows the delay
StepRetried(r) ==
    /\ attempt' = [attempt EXCEPT ![r] = @ + 1]
    /\ UNCHANGED <<detailed_results, steps_passed, steps_failed, idx, pc, exc>>

\* StepFailed with the last fault raised again instead of returned as a result
StepFailed_reraises(r, out, shot) ==
    /\ pc' = [pc EXCEPT ![r] = "except"]
    /\ exc' = [exc EXCEPT ![r] = out.error_type]
    /\ UNCHANGED <<detailed_results, steps_passed, steps_failed, idx, attempt>>

\* lines 106-120, then 253-258: the last attempt faulted; the screenshot is
\* tried, the failure result is returned, appended and counted
StepFailed(r, out, shot) ==
    LET n == idx[r]
    IN /\ detailed_results' = [detailed_results EXCEPT ![r] =
             Append(@, FailedResult(request[r].steps[n], n, AttemptNumber(attempt[r]), out,
                       _capture_failure_screenshot(request[r].test_id, n, shot)))]
       /\ steps_failed' = [steps_failed EXCEPT ![r] = @ + 1]
       /\ idx' = [idx EXCEPT ![r] = n + 1]
       /\ attempt' = [attempt EXCEPT ![r] = 0]
       /\ UNCHANGED <<steps_passed, pc, exc>>

\* One pass of the loop of execute_step (lines 94-120) for step idx: one call of
\* _execute_action and what follows it, up to the next call.  tries, shots and
\* sleeps record the calls made for the step.
execute_step(r) ==
    /\ pc[r] = "steps"
    /\ idx[r] <= Len(request[r].steps)
    /\ \E env \in Envs, shot \in {"ok", "fault"} :
         LET n == idx[r]
             out == _execute_action(request[r].steps[n], env)
             first == attempt[r] = 0
             tried == IF first THEN Append(tries[r], <<out.ok>>)
                      ELSE [tries[r] EXCEPT ![n] = Append(@, out.ok)]
             shot0 == IF first THEN Append(shots[r], <<>>) ELSE shots[r]
             slept0 == IF first THEN Append(sleeps[r], <<>>) ELSE sleeps[r]
         IN /\ tries' = [tries EXCEPT ![r] = tried]
            /\ last' = [last EXCEPT ![r] =
                  [driver_calls |-> out.driver_calls, slept |-> out.slept]]
            /\ IF out.ok
               THEN /\ StepPassed(r, out)
                    /\ shots' = [shots EXCEPT ![r] = shot0]
                    /\ sleeps' = [sleeps EXCEPT ![r] = slept0]
               ELSE IF MayRetry(attempt[r])
               THEN /\ StepRetried(r)
                    /\ shots' = [shots EXCEPT ![r] = shot0]
                    /\ sleeps' = [sleeps EXCEPT ![r] = [slept0 EXCEPT ![n] = Append(@, retry_delay)]]
               ELSE /\ StepFailed(r, out, shot)
                    /\ shots' = [shots EXCEPT ![r] = [shot0 EXCEPT ![n] = Append(@, shot)]]
                    /\ sleeps' = [sleeps EXCEPT ![r] = slept0]
    /\ UNCHANGED <<request, driver, active_drivers, result, response,
                   background_tasks, posted, webhook, quit_calls>>
    /\ UNCHANGED <<run_calls, error_shot, deregistered, health>>

\* lines 262-282: the loop is over; the result is built and the callback scheduled
BuildResult(r) ==
    /\ pc[r] = "steps"
    /\ idx[r] > Len(request[r].steps)
    /\ LET res == CompletedResult(request[r], steps_passed[r], steps_failed[r],
                                  detailed_results[r])
       IN /\ result' = [result EXCEPT ![r] = res]
          /\ background_tasks' = [background_tasks EXCEPT ![r] = AddTask(@, request[r], res)]
    /\ pc' = [pc EXCEPT ![r] = "finally"]
    /\ UNCHANGED <<request, driver, active_drivers, idx, attempt, detailed_results,
                   steps_passed, steps_failed, response, posted, webhook, exc,
                   quit_calls, tries, shots, sleeps>>
    /\ UNCHANGED <<last, run_calls, error_shot, deregistered, health>>

\* lines 291-297: the path is assigned before save_screenshot is called, and
\* the bare except leaves it assigned
ErrorScreenshot(d, test_id, shot) ==
    IF d # NoDriver THEN ErrorScreenshotPath(test_id) ELSE None

\* lines 284-315: the handler of a fault of session creation or navigation
ExceptHandler(r) ==
    /\ pc[r] = "except"
    /\ \E shot \in {"ok", "fault"} :
         LET res == ErrorResult(request[r], exc[r],
                                ErrorScreenshot(driver[r], request[r].test_id, shot))
         IN /\ result' = [result EXCEPT ![r] = res]
            /\ background_tasks' = [background_tasks EXCEPT ![r] = AddTask(@, request[r], res)]
            /\ error_shot' = [error_shot EXCEPT ![r] =
                  IF driver[r] # NoDriver THEN <<shot>> ELSE <<>>]
    /\ pc' = [pc EXCEPT ![r] = "finally"]
    /\ UNCHANGED <<request, driver, active_drivers, idx, attempt, detailed_results,
                   steps_passed, steps_failed, response, posted, webhook, exc,
                   quit_calls, tries, shots, sleeps>>
    /\ UNCHANGED <<last, run_calls, deregistered, health>>

\* HasDriver with the cleanup never entered
HasDriver_never(d) == FALSE

\* `if driver:` of line 319
HasDriver(d) == d # NoDriver

\* AfterQuitFault without the except clause of line 326: the fault leaves the handler
AfterQuitFault_escapes == "crashed"

\* lines 326-327: a fault of driver.quit() is logged; the loop of lines
\* 323-325 is skipped
AfterQuitFault == "return"

\* lines 317-321: the finally clause, up to driver.quit()
Quit(r) ==
    /\ pc[r] = "finally"
    /\ IF HasDriver(driver[r])
       THEN \E outcome \in {"ok", "WebDriverException"} :
               /\ quit_calls' = [quit_calls EXCEPT ![r] = @ + 1]
               /\ pc' = [pc EXCEPT ![r] = IF outcome = "ok" THEN "deregister"
                                          ELSE AfterQuitFault]
       ELSE /\ pc' = [pc EXCEPT ![r] = "return"]
            /\ UNCHANGED quit_calls
    /\ UNCHANGED <<request, driver, active_drivers, idx, attempt, detailed_results,
                   steps_passed, steps_failed, result, response, background_tasks,
                   posted, webhook, exc, tries, shots, sleeps>>
    /\ UNCHANGED <<last, run_calls, error_shot, deregistered, health>>

\* lines 322-325
DeregisterSession(r) ==
    /\ pc[r] = "deregister"
    /\ active_drivers' = Deregister(active_drivers, driver[r])
    /\ pc' = [pc EXCEPT ![r] = "return"]
    /\ UNCHANGED <<request, driver, idx, attempt, detailed_results, steps_passed,
                   steps_failed, result, response, background_tasks, posted, webhook,
                   exc, quit_calls, tries, shots, sleeps>>
    /\ deregistered' = [deregistered EXCEPT ![r] = TRUE]
    /\ UNCHANGED <<last, run_calls, error_shot, health>>

\* `return result` of lines 282 and 315, completed once the finally clause is over
ReturnResult(r) ==
    /\ pc[r] = "return"
    /\ response' = [response EXCEPT ![r] = result[r]]
    /\ pc' = [pc EXCEPT ![r] = "done"]
    /\ UNCHANGED <<request, driver, active_drivers, idx, attempt, detailed_results,
                   steps_passed, steps_failed, result, background_tasks, posted,
                   webhook, exc, quit_calls, tries, shots, sleeps>>
    /\ UNCHANGED <<last, run_calls, error_shot, deregistered, health>>

-----------------------------------------------------------------------------
(* send_webhook, lines 329-336, run as a background task after the response *)

\* line 332: requests.post(webhook_url, json=data, timeout=10) is issued
SendWebhook(r) ==
    /\ pc[r] = "done"
    /\ webhook[r] # "posting"
    /\ Len(posted[r]) < Len(background_tasks[r])
    /\ posted' = [posted EXCEPT ![r] = Append(@, background_tasks[r][Len(@) + 1])]
    /\ webhook' = [webhook EXCEPT ![r] = "posting"]
    /\ UNCHANGED <<request, pc, driver, active_drivers, idx, attempt, detailed_results,
                   steps_passed, steps_failed, result, response, background_tasks,
                   exc, quit_calls, tries, shots, sleeps>>
    /\ UNCHANGED <<last, run_calls, error_shot, deregistered, health>>

\* WebhookDone with a fault of the POST reported in the run's result
WebhookDone_surfaces_fault(r) ==
    /\ webhook[r] = "posting"
    /\ \E outcome \in {"2xx", "HTTPError", "ConnectionError"} :
         /\ webhook' = [webhook EXCEPT ![r] = IF outcome = "2xx" THEN "sent" ELSE "logged"]
         /\ response' = [response EXCEPT ![r] =
                IF outcome = "2xx" THEN @ ELSE [@ EXCEPT !.status = "ERROR"]]
    /\ UNCHANGED <<request, pc, driver, active_drivers, idx, attempt, detailed_results,
                   steps_passed, steps_failed, result, background_tasks,
                   posted, exc, quit_calls, tries, shots, sleeps>>
    /\ UNCHANGED <<last, run_calls, error_shot, deregistered, health>>

\* lines 333-336: the POST answers 2xx, answers another status
\* (raise_for_status faults) or faults itself; either fault is logged
WebhookDone(r) ==
    /\ webhook[r] = "posting"
    /\ \E outcome \in {"2xx", "HTTPError", "ConnectionError"} :
         webhook' = [webhook EXCEPT ![r] = IF outcome = "2xx" THEN "sent" ELSE "logged"]
    /\ UNCHANGED <<request, pc, driver, active_drivers, idx, attempt, detailed_results,
                   steps_passed, steps_failed, result, response, background_tasks,
                   posted, exc, quit_calls, tries, shots, sleeps>>
    /\ UNCHANGED <<last, run_calls, error_shot, deregistered, health>>

-----------------------------------------------------------------------------

\* health_check, lines 203-210: a plain function, run in the thread pool, so
\* it may read the registry between any two steps of a handler
health_check ==
    /\ health' = <<Cardinality(DOMAIN active_drivers)>>
    /\ UNCHANGED <<request, pc, driver, active_drivers, idx, attempt, detailed_results,
                   steps_passed, steps_failed, result, response, background_tasks,
                   posted, webhook, exc, quit_calls, tries, shots, sleeps, last,
                   run_calls, error_shot, deregistered>>

-----------------------------------------------------------------------------

Next ==
    \E r \in Runs :
        \/ CreateSession(r)
        \/ Navigate(r)
        \/ execute_step(r)
        \/ BuildResult(r)
        \/ ExceptHandler(r)
        \/ Quit(r)
        \/ DeregisterSession(r)
        \/ ReturnResult(r)
        \/ SendWebhook(r)
        \/ WebhookDone(r)

Spec == Init /\ [][Next]_vars

SpecSteps == InitSteps /\ [][Next]_vars

SpecConc == InitConc /\ [][Next]_vars

\* the steps of the handlers alone: what runs when every driver call
\* returns or faults
Handler ==
    \E r \in Runs :
        \/ CreateSession(r)
        \/ Navigate(r)
        \/ execute_step(r)
        \/ BuildResult(r)
        \/ ExceptHandler(r)
        \/ Quit(r)
        \/ DeregisterSession(r)
        \/ ReturnResult(r)

FairSpec == Spec /\ WF_vars(Handler)

\* the handlers of NumRuns requests with GET /health answered at any moment
NextHealth == Handler \/ health_check

SpecHealth == InitHealth /\ [][NextHealth]_vars

-----------------------------------------------------------------------------
(* Properties *)

Statuses == {"PASS", "FAIL", "ERROR"}

Returned(r) == response[r].status \in Statuses

OwnEntries(r) == { s \in DOMAIN active_drivers : active_drivers[s] = r }

\* C1: every returned TestResult has status PASS, FAIL or ERROR; under PASS or
\* FAIL steps_executed equals steps_passed + steps_failed, the number of
\* submitted steps and the length of detailed_results; under ERROR the three
\* counters are 0 and detailed_results is empty.
C1_Counters ==
    \A r \in Runs :
        Returned(r) =>
            LET t == response[r]
            IN /\ t.status \in {"PASS", "FAIL"} =>
                     /\ t.steps_executed = t.steps_passed + t.steps_failed
                     /\ t.steps_executed = Len(request[r].steps)
                     /\ t.steps_executed = Len(t.detailed_results)
               /\ t.status = "ERROR" =>
                     /\ t.steps_executed = 0
                     /\ t.steps_passed = 0
                     /\ t.steps_failed = 0
                     /\ t.detailed_results = <<>>

C1_Witness ==
    \E r \in Runs :
        /\ Returned(r)
        /\ response[r].status = "FAIL"
        /\ response[r].steps_passed = 1
        /\ response[r].steps_failed = 1

\* C2: a run that is about to return or has returned has called driver.quit()
\* if it acquired a session, whatever path it took, and has called it on
\* nothing if session creation faulted.
C2_SessionClosed ==
    \A r \in Runs :
        pc[r] \in {"return", "done"} =>
            IF driver[r] # NoDriver THEN quit_calls[r] >= 1 ELSE quit_calls[r] = 0

C2_Witness ==
    \E r \in Runs :
        /\ pc[r] = "done"
        /\ driver[r] # NoDriver
        /\ response[r].status = "ERROR"
        /\ quit_calls[r] = 1

\* C3: a run schedules at most one callback: once its result is built it has
\* scheduled exactly one if webhook_url is present (a non-empty string) and
\* none otherwise, on the PASS, FAIL and ERROR paths alike; and no more POSTs
\* are issued than callbacks scheduled, whatever the POST's outcome.
C3_OneCallback ==
    \A r \in Runs :
        /\ Len(background_tasks[r]) <= 1
        /\ Len(posted[r]) <= Len(background_tasks[r])
        /\ result[r].status \in Statuses =>
              Len(background_tasks[r]) = IF Truthy(request[r].webhook_url) THEN 1 ELSE 0

C3_Witness ==
    \E r \in Runs :
        /\ response[r].status = "ERROR"
        /\ webhook[r] = "logged"
        /\ Len(posted[r]) = 1

\* C4: every request that arrived is eventually answered with a TestResult
\* whose status is PASS, FAIL or ERROR, whichever driver calls fault.
C4_Responds ==
    \A r \in Runs :
        (pc[r] = "idle") ~> (pc[r] = "done" /\ response[r].status \in Statuses)

C4_Witness ==
    \E r \in Runs :
        /\ pc[r] = "done"
        /\ response[r].status = "ERROR"
        /\ exc[r] = "WebDriverException"
        /\ OwnEntries(r) # {}

\* C5: once every request has completed, the session registry is empty again,
\* as it was before the first one.
C5_RegistryRestored ==
    (\A r \in Runs : pc[r] = "done") => DOMAIN active_drivers = {}

\* C6: a run whose initial navigation faulted returns ERROR with the three
\* counters 0, has executed no step and has left no entry of its session in
\* the registry.
C6_NavigationFault ==
    \A r \in Runs :
        (pc[r] = "done" /\ exc[r] # "" /\ driver[r] # NoDriver) =>
            /\ response[r].status = "ERROR"
            /\ response[r].steps_executed = 0
            /\ response[r].steps_passed = 0
            /\ response[r].steps_failed = 0
            /\ tries[r] = <<>>
            /\ OwnEntries(r) = {}

\* C7: if the first successful attempt of a step is attempt k, the step's
\* result is recorded with status passed and attempt k, _execute_action was
\* called exactly k times for it, and _capture_failure_screenshot never.
C7_FirstSuccess ==
    \A r \in Runs :
        \A i \in 1..Len(tries[r]) :
            \A k \in 1..Len(tries[r][i]) :
                (tries[r][i][k] /\ \A j \in 1..(k - 1) : ~tries[r][i][j]) =>
                    /\ i <= Len(detailed_results[r])
                    /\ detailed_results[r][i].status = "passed"
                    /\ detailed_results[r][i].attempt = k
                    /\ Len(tries[r][i]) = k
                    /\ shots[r][i] = <<>>

C7_Witness ==
    \E r \in Runs :
        \E i \in 1..Len(detailed_results[r]) :
            /\ tries[r][i] = <<FALSE, FALSE, TRUE>>
            /\ detailed_results[r][i].attempt = 3
            /\ detailed_results[r][i].status = "passed"

AllFailed == <<FALSE, FALSE, FALSE>>

\* every step of a completed run that did not fault was executed and recorded
RunNotAborted(r) ==
    (pc[r] = "done" /\ response[r].status # "ERROR") =>
        /\ Len(response[r].detailed_results) = Len(request[r].steps)
        /\ Len(tries[r]) = Len(request[r].steps)

\* C8, as stated: a step that faulted on all 3 attempts is recorded with
\* status failed, attempt 3 and a non-null screenshot path ending in
\* _FAILED.png, and the later steps are still executed and recorded.
C8_FailedStep ==
    \A r \in Runs :
        /\ RunNotAborted(r)
        /\ \A i \in 1..Len(tries[r]) :
              tries[r][i] = AllFailed =>
                  /\ i <= Len(detailed_results[r])
                  /\ detailed_results[r][i].status = "failed"
                  /\ detailed_results[r][i].attempt = 3
                  /\ detailed_results[r][i].screenshot # None
                  /\ detailed_results[r][i].screenshot[Len(detailed_results[r][i].screenshot)]
                        = "_FAILED.png"

\* C8, amended: a step that faulted on all 3 attempts is recorded with status
\* failed and attempt 3; its screenshot is the path ending in _FAILED.png when
\* the capture succeeded and null when the capture itself faulted; the later
\* steps are still executed and recorded.
C8_FailedStepAmended ==
    \A r \in Runs :
        /\ RunNotAborted(r)
        /\ \A i \in 1..Len(tries[r]) :
              tries[r][i] = AllFailed =>
                  /\ i <= Len(detailed_results[r])
                  /\ detailed_results[r][i].status = "failed"
                  /\ detailed_results[r][i].attempt = 3
                  /\ shots[r][i] \in {<<"ok">>, <<"fault">>}
                  /\ shots[r][i] = <<"ok">> =>
                        /\ detailed_results[r][i].screenshot # None
                        /\ detailed_results[r][i].screenshot[Len(detailed_results[r][i].screenshot)]
                              = "_FAILED.png"
                  /\ shots[r][i] = <<"fault">> =>
                        detailed_results[r][i].screenshot = None

C8_Witness ==
    \E r \in Runs :
        /\ pc[r] = "done"
        /\ Len(response[r].detailed_results) = 2
        /\ tries[r][1] = AllFailed
        /\ response[r].detailed_results[1].status = "failed"
        /\ response[r].detailed_results[1].screenshot = None
        /\ response[r].detailed_results[2].status = "passed"

\* C9: every result execute_step returns has status passed or failed; once
\* the steps have begun no fault reaches the handler of line 284 and the
\* run's status is never ERROR; a completed run has a result for every step.
C9_StepFaultContained ==
    \A r \in Runs :
        /\ \A i \in 1..Len(detailed_results[r]) :
              detailed_results[r][i].status \in {"passed", "failed"}
        /\ idx[r] >= 1 =>
              /\ exc[r] = ""
              /\ pc[r] # "except"
              /\ result[r].status # "ERROR"
              /\ response[r].status # "ERROR"
        /\ (idx[r] >= 1 /\ pc[r] = "done") =>
              Len(response[r].detailed_results) = Len(request[r].steps)

C9_Witness ==
    \E r \in Runs :
        /\ pc[r] = "done"
        /\ response[r].status = "FAIL"
        /\ response[r].detailed_results[1].status = "failed"
        /\ response[r].detailed_results[1].screenshot = None
        /\ response[r].detailed_results[1].error_type = "TypeError"

\* C10: no POST is issued before the run's response is handed back; the
\* response, once handed back, never changes; and a step of send_webhook,
\* whatever the POST's outcome, changes nothing but the task's own state.
C10_CallbackDecoupled ==
    [][\A r \in Runs :
         /\ pc[r] # "done" => (posted[r] = <<>> /\ webhook[r] = "idle")
         /\ pc[r] = "done" => response'[r] = response[r]
         /\ (webhook'[r] # webhook[r] \/ posted'[r] # posted[r]) =>
               UNCHANGED <<request, pc, driver, active_drivers, idx, attempt,
                           detailed_results, steps_passed, steps_failed, result,
                           response, background_tasks, exc, quit_calls>>]_vars

C10_Witness ==
    \E r \in Runs :
        /\ pc[r] = "done"
        /\ response[r].status = "PASS"
        /\ webhook[r] = "posting"

\* C11: every payload handed to add_task is the run's own finished result,
\* and every payload POSTed is the TestResult returned to that run's caller,
\* carrying that run's test_id, on the PASS, FAIL and ERROR paths.
C11_PayloadIsResponse ==
    \A r \in Runs :
        /\ \A i \in 1..Len(background_tasks[r]) :
              /\ background_tasks[r][i] = result[r]
              /\ background_tasks[r][i].test_id = request[r].test_id
        /\ \A i \in 1..Len(posted[r]) :
              /\ Returned(r)
              /\ posted[r][i] = response[r]
              /\ \A q \in Runs \ {r} : posted[r][i] # response[q]

C11_Witness ==
    \E r \in Runs, q \in Runs :
        /\ Len(posted[r]) = 1 /\ Len(posted[q]) = 1
        /\ posted[r][1].status = "FAIL"
        /\ posted[q][1].status = "ERROR"

\* the step has an attempt that succeeded
StepSucceeded(r, i) == \E k \in 1..Len(tries[r][i]) : tries[r][i][k]

\* C12: a returned result is PASS exactly when no fault reached the handler
\* and every submitted step succeeded (so also for no steps at all, with
\* steps_executed 0), FAIL exactly when no fault reached it and some step
\* never succeeded, ERROR exactly when session creation or the initial
\* navigation faulted.
C12_Status ==
    \A r \in Runs :
        Returned(r) =>
            LET ran == exc[r] = "" /\ Len(tries[r]) = Len(request[r].steps)
                allOk == \A i \in 1..Len(tries[r]) : StepSucceeded(r, i)
            IN /\ response[r].status = "PASS" <=> (ran /\ allOk)
               /\ response[r].status = "FAIL" <=> (ran /\ ~allOk)
               /\ response[r].status = "ERROR" <=>
                     (exc[r] # "" /\ tries[r] = <<>>
                        /\ run_calls[r] \in {<<"Driver">>, <<"Driver", "get">>})
               /\ request[r].steps = <<>> /\ exc[r] = "" =>
                     (response[r].status = "PASS" /\ response[r].steps_executed = 0)

C12_Witness ==
    \E r \in Runs :
        /\ Returned(r)
        /\ request[r].steps = <<>>
        /\ response[r].status = "PASS"
        /\ response[r].steps_executed = 0

\* the latest attempt of the run met a visible element
SawVisible(r) ==
    /\ Len(last[r].driver_calls) >= 1
    /\ last[r].driver_calls[1] = Call("wait", "visible")

\* the latest attempt of the run read the text t from the element
ReadText(r, t) ==
    /\ Len(last[r].driver_calls) >= 2
    /\ last[r].driver_calls[2] = TextCall(t)

LastTry(r, i) == tries[r][i][Len(tries[r][i])]

\* C13: an attempt of a verify step passes exactly when the element became
\* visible and either no value is given or the text read contains the value
\* ("Welcome" against "Welcome, User" passes, against "Goodbye" it faults);
\* a step recorded with an AssertionError made all 3 attempts, and a text
\* that lacks the value is not recorded as a failure before the third.
C13_Verify ==
    \A r \in Runs :
        (/\ Len(request[r].steps) = 1
         /\ request[r].steps[1].action = "verify"
         /\ Truthy(request[r].steps[1].selector)
         /\ tries[r] # <<>>) =>
            LET value == request[r].steps[1].value
                recorded == detailed_results[r] # <<>>
            IN /\ LastTry(r, 1) <=>
                     /\ SawVisible(r)
                     /\ ~Truthy(value) \/ (value = WELCOME /\ ReadText(r, WELCOME_USER))
               /\ (value = WELCOME /\ ReadText(r, GOODBYE)) =>
                     /\ ~LastTry(r, 1)
                     /\ recorded <=> Len(tries[r][1]) = 3
                     /\ recorded => detailed_results[r][1].error_type = "AssertionError"
               /\ (recorded /\ detailed_results[r][1].status = "failed"
                     /\ detailed_results[r][1].error_type = "AssertionError") =>
                     /\ detailed_results[r][1].attempt = 3
                     /\ tries[r][1] = AllFailed
                     /\ ReadText(r, GOODBYE)

C13_Witness ==
    \E r \in Runs :
        /\ pc[r] = "done"
        /\ request[r].steps[1].action = "verify"
        /\ ReadText(r, GOODBYE)
        /\ response[r].detailed_results[1].status = "failed"
        /\ response[r].detailed_results[1].error_type = "AssertionError"
        /\ response[r].detailed_results[1].attempt = 3

\* C14: the results are appended in step order, each with its 1-based
\* position as step_number and its step's action; a step is attempted only
\* when the results of all the steps before it are in the list, and at most
\* one step is under way.
C14_StepOrder ==
    \A r \in Runs :
        /\ Len(detailed_results[r]) <= Len(tries[r])
        /\ Len(tries[r]) <= Len(detailed_results[r]) + 1
        /\ Len(tries[r]) <= Len(request[r].steps)
        /\ Len(tries[r]) = Len(detailed_results[r]) + 1 =>
              (pc[r] = "steps" /\ idx[r] = Len(tries[r]))
        /\ \A i \in 1..Len(detailed_results[r]) :
              /\ detailed_results[r][i].step_number = i
              /\ detailed_results[r][i].action = request[r].steps[i].action
        /\ Returned(r) /\ response[r].status # "ERROR" =>
              response[r].detailed_results = detailed_results[r]

C14_Witness ==
    \E r \in Runs :
        /\ Returned(r)
        /\ Len(response[r].detailed_results) = 2
        /\ response[r].detailed_results[1].action = "click"
        /\ response[r].detailed_results[2].action = "verify"
        /\ response[r].detailed_results[2].step_number = 2

\* C15: a step gets at least 1 and at most 3 attempts, none after a
\* successful one, and 3 before it is recorded as failed; exactly one delay of
\* 2 seconds follows each attempt that is retried: k - 1 delays for a step
\* finished in k attempts, none after a success or after the last fault.
C15_RetryDelays ==
    \A r \in Runs :
        \A i \in 1..Len(tries[r]) :
            LET k == Len(tries[r][i])
                finished == i <= Len(detailed_results[r])
            IN /\ k >= 1 /\ k <= 3
               /\ \A j \in 1..(k - 1) : ~tries[r][i][j]
               /\ \A j \in 1..Len(sleeps[r][i]) : sleeps[r][i][j] = 2
               /\ Len(sleeps[r][i]) = IF finished THEN k - 1 ELSE k
               /\ finished <=> (tries[r][i][k] \/ k = 3)

C15_Witness ==
    \E r \in Runs :
        \E i \in 1..Len(detailed_results[r]) :
            /\ tries[r][i] = AllFailed
            /\ sleeps[r][i] = <<2, 2>>
            /\ detailed_results[r][i].status = "failed"

\* the run's only step is a wait step that has been attempted
WaitTried(r) ==
    /\ Len(request[r].steps) = 1
    /\ request[r].steps[1].action = "wait"
    /\ tries[r] # <<>>

\* C16, as stated: every wait step, whatever its value and timeout, passes
\* on attempt 1 after its sleep.
C16_WaitNeverFails ==
    \A r \in Runs :
        WaitTried(r) =>
            /\ tries[r][1] = <<TRUE>>
            /\ detailed_results[r][1].status = "passed"
            /\ detailed_results[r][1].attempt = 1

\* C16, amended: a wait step whose value is a string of a non-negative
\* number, or whose value is absent or empty while its timeout is a
\* non-negative number, sleeps that many seconds and passes on attempt 1;
\* with any other value (non-numeric, negative), or with no value and no
\* timeout, every attempt faults and the step is recorded as failed after 3
\* attempts with a ValueError or TypeError.
C16_WaitAmended ==
    \A r \in Runs :
        WaitTried(r) =>
            LET step == request[r].steps[1]
                secs == CASE step.value = <<"1">> -> <<1>>
                          [] step.value \in {None, <<>>} -> step.timeout
                          [] OTHER -> NoInt
            IN IF secs # NoInt
               THEN /\ tries[r][1] = <<TRUE>>
                    /\ last[r].slept = secs
                    /\ detailed_results[r][1].status = "passed"
                    /\ detailed_results[r][1].attempt = 1
               ELSE /\ \A k \in 1..Len(tries[r][1]) : ~tries[r][1][k]
                    /\ last[r].slept = NoInt
                    /\ detailed_results[r] # <<>> =>
                          /\ detailed_results[r][1].status = "failed"
                          /\ detailed_results[r][1].attempt = 3
                          /\ detailed_results[r][1].error_type \in {"ValueError", "TypeError"}

C16_Witness ==
    \E r \in Runs :
        /\ WaitTried(r)
        /\ request[r].steps[1].value = <<"a", "b", "c">>
        /\ detailed_results[r] # <<>>
        /\ detailed_results[r][1].status = "failed"
        /\ detailed_results[r][1].error_type = "ValueError"

KnownActions == {"open_url", "click", "type_text", "verify", "wait", "screenshot"}

\* an action that is not one of the six, or a step without a field its action requires
InvalidInput(step) ==
    \/ step.action \notin KnownActions
    \/ step.action \in {"click", "verify"} /\ ~Truthy(step.selector)
    \/ step.action = "type_text" /\ (~Truthy(step.selector) \/ ~Truthy(step.value))
    \/ step.action = "open_url" /\ ~Truthy(step.value) /\ ~Truthy(step.selector)

\* C17: for an unknown action or a step without a required field, every
\* attempt faults before any driver call, and the step is recorded as failed
\* after 3 attempts with the error kind ValueError.
C17_InvalidInput ==
    \A r \in Runs :
        (/\ Len(request[r].steps) = 1
         /\ InvalidInput(request[r].steps[1])
         /\ tries[r] # <<>>) =>
            /\ \A k \in 1..Len(tries[r][1]) : ~tries[r][1][k]
            /\ last[r].driver_calls = <<>>
            /\ detailed_results[r] # <<>> =>
                  /\ detailed_results[r][1].status = "failed"
                  /\ detailed_results[r][1].attempt = 3
                  /\ detailed_results[r][1].error_type = "ValueError"

\* C18: session creation and the initial navigation are each called at most
\* once; a fault of either gives ERROR with an error_message; the error
\* screenshot is tried only with a session, and when its capture faults the
\* result is ERROR with screenshot_url unset; error_message and
\* screenshot_url are set only under ERROR.
C18_RunLevelFaults ==
    \A r \in Runs :
        /\ run_calls[r] \in {<<>>, <<"Driver">>, <<"Driver", "get">>}
        /\ error_shot[r] # <<>> => driver[r] # NoDriver
        /\ Returned(r) =>
              /\ exc[r] # "" =>
                    (response[r].status = "ERROR" /\ response[r].error_message # None)
              /\ error_shot[r] = <<"fault">> =>
                    (response[r].status = "ERROR" /\ response[r].screenshot_url = None)
              /\ response[r].status # "ERROR" =>
                    (response[r].error_message = None /\ response[r].screenshot_url = None)

\* C19: a callback POST is issued only after the run's session, if it has
\* one, was closed and its entry removed from the registry.
C19_TeardownBeforeCallback ==
    \A r \in Runs :
        (posted[r] # <<>> /\ driver[r] # NoDriver) =>
            /\ quit_calls[r] >= 1
            /\ deregistered[r]
            /\ OwnEntries(r) = {}

\* the runs that have registered a session and not yet removed it
RegisteredRuns == { r \in Runs : driver[r] # NoDriver /\ ~deregistered[r] }

\* C20: the registry changes only by one run adding one entry under a key
\* that was not in it, or by one run at teardown removing exactly the entries
\* that hold its own session, every other entry staying as it was; its size
\* is always the number of runs that registered a session and have not yet
\* deregistered it, and that is the number /health answers with.
C20_RegistryFrame ==
    /\ [](Cardinality(DOMAIN active_drivers) = Cardinality(RegisteredRuns))
    /\ [][/\ active_drivers' # active_drivers =>
               \E r \in Runs :
                   \/ /\ pc[r] = "idle"
                      /\ \E sid \in DOMAIN active_drivers' :
                            /\ sid \notin DOMAIN active_drivers
                            /\ DOMAIN active_drivers' = DOMAIN active_drivers \cup {sid}
                            /\ active_drivers'[sid] = driver'[r]
                      /\ \A s \in DOMAIN active_drivers : active_drivers'[s] = active_drivers[s]
                   \/ /\ pc[r] = "deregister"
                      /\ DOMAIN active_drivers' = DOMAIN active_drivers \ OwnEntries(r)
                      /\ \A s \in DOMAIN active_drivers' : active_drivers'[s] = active_drivers[s]
          /\ health' # health => health' = <<Cardinality(RegisteredRuns)>>]_vars

C20_Witness ==
    \E r, q \in Runs :
        /\ r # q
        /\ deregistered[r]
        /\ pc[q] = "done"
        /\ OwnEntries(q) # {}
        /\ OwnEntries(r) = {}
        /\ health = <<1>>

====
